---- MODULE Spec2Model ----
(***************************************************************************)
(* Model of the calculation endpoints of peak-finance                      *)
(* (app/routers/calc.py over app/services/calculators.py).                 *)
(*                                                                         *)
(* Python `float` is modelled as a floating-point number with Prec         *)
(* significant decimal digits: a value is [m, e], standing for m * 10^e,   *)
(* with 10^(Prec-1) <= |m| < 10^Prec or m = 0 (then e = 0).  Every          *)
(* arithmetic operation returns the representable value nearest to the     *)
(* exact result (ties to even), as IEEE-754 does at 53 bits.  The range is *)
(* modelled where the program can leave it: math.pow raises OverflowError  *)
(* above 10^MaxExp10, and a product or quotient below the normal range is  *)
(* rounded to a multiple of 10^MinExp10, the smallest positive float       *)
(* (gradual underflow).  Overflow of the other operations to inf is not    *)
(* modelled.                                                               *)
(***************************************************************************)
EXTENDS Integers, Sequences, FiniteSets

(* Significant digits carried by a float of the model. *)
Prec == 3

RECURSIVE Pow10(_)
Pow10(k) == IF k <= 0 THEN 1 ELSE 10 * Pow10(k - 1)

Abs(n) == IF n < 0 THEN -n ELSE n

Sgn(n) == IF n < 0 THEN -1 ELSE IF n = 0 THEN 0 ELSE 1

RECURSIVE NDigits(_)
NDigits(n) == IF n < 10 THEN 1 ELSE 1 + NDigits(n \div 10)

Zero == [m |-> 0, e |-> 0]

(* q + r / p rounded to the nearest integer, ties to even; sticky says that *)
(* the exact value lies strictly above (digits were already dropped).       *)
RoundUp(q, r, p, sticky) ==
    IF 2 * r > p \/ (2 * r = p /\ (sticky \/ q % 2 = 1)) THEN q + 1 ELSE q

(* a / 10^k rounded to the nearest integer. *)
RoundDigits(a, k, sticky) ==
    RoundUp(a \div Pow10(k), a % Pow10(k), Pow10(k), sticky)

(* s * q * 10^e with q of Prec digits, or q = 10^Prec after a carry. *)
Carry(s, q, e) ==
    IF q = Pow10(Prec) THEN [m |-> s * Pow10(Prec - 1), e |-> e + 1]
    ELSE [m |-> s * q, e |-> e]

(* The float nearest to s * a * 10^e, a > 0 having d digits. *)
NormDigits(s, a, d, e, sticky) ==
    IF d <= Prec
    THEN [m |-> s * a * Pow10(Prec - d), e |-> e - (Prec - d)]
    ELSE Carry(s, RoundDigits(a, d - Prec, sticky), e + (d - Prec))

(* The float nearest to n * 10^e (n exact, or truncated when sticky). *)
NormS(n, e, sticky) ==
    IF n = 0 THEN Zero
    ELSE NormDigits(Sgn(n), Abs(n), NDigits(Abs(n)), e, sticky)

Norm(n, e) == NormS(n, e, FALSE)

(* A float literal of the source: n * 10^e rounded to the model's precision. *)
F(n, e) == Norm(n, e)

(* int -> float conversion (an int operand of a float operation). *)
FromInt(n) == Norm(n, 0)

FNeg(x) == [m |-> -x.m, e |-> x.e]

(* hi + lo where hi.e >= lo.e, both nonzero.  When the exponents differ by  *)
(* more than Prec + 1, lo is below half an ulp of hi and is absorbed.       *)
AddAligned(hi, lo) ==
    IF hi.e - lo.e > Prec + 1 THEN hi
    ELSE Norm(hi.m * Pow10(hi.e - lo.e) + lo.m, lo.e)

FAdd(x, y) ==
    IF x.m = 0 THEN y
    ELSE IF y.m = 0 THEN x
    ELSE IF x.e >= y.e THEN AddAligned(x, y)
    ELSE AddAligned(y, x)

FSub(x, y) == FAdd(x, FNeg(y))

(* The floats reach up to 10^MaxExp10 (1.8e308 in binary64).  Below the    *)
(* normal range, which ends 15 digits above it, they are the multiples of  *)
(* the smallest positive float, 10^MinExp10 (5e-324 in binary64).          *)
MaxExp10 == 308
MinExp10 == -(MaxExp10 + 15)

(* r, the nearest float of full precision to s * a * 10^e, or, when that   *)
(* lies off the grid of multiples of 10^MinExp10, the nearest multiple.    *)
Gradual(r, s, a, e, sticky) ==
    IF r.m = 0 \/ r.e >= MinExp10 \/ e >= MinExp10 THEN r
    ELSE IF MinExp10 - e > 2 * Prec + 1 THEN Zero
    ELSE Norm(s * RoundDigits(a, MinExp10 - e, sticky), MinExp10)

FMul(x, y) ==
    Gradual(Norm(x.m * y.m, x.e + y.e), Sgn(x.m) * Sgn(y.m),
            Abs(x.m * y.m), x.e + y.e, FALSE)

(* s * n / d * 10^e, rounded once. *)
DivRound(s, n, d, e) ==
    Gradual(NormS(s * (n \div d), e, n % d # 0), s, n \div d, e, n % d # 0)

(* x / y for y # 0 (the callers guard the zero divisor). *)
FDiv(x, y) ==
    DivRound(Sgn(x.m) * Sgn(y.m), Abs(x.m) * Pow10(Prec + 1), Abs(y.m),
             x.e - y.e - (Prec + 1))

(* x < y: by sign, then by exponent, then by mantissa. *)
FLt(x, y) ==
    IF x.m = 0 \/ y.m = 0 \/ (x.m < 0) # (y.m < 0) THEN x.m < y.m
    ELSE IF x.e = y.e THEN x.m < y.m
    ELSE (x.e < y.e) = (x.m > 0)
FLe(x, y) == ~FLt(y, x)
FGt(x, y) == FLt(y, x)
FGe(x, y) == ~FLt(x, y)

(* Python max(a, b): b only when it is strictly greater. *)
FMax(a, b) == IF FGt(b, a) THEN b ELSE a

(* math.pow(x, n) for an integer n >= 0, by repeated squaring.  The power   *)
(* is carried as a * 10^e with a of 2 * Prec digits, truncated (st: digits *)
(* were dropped), and rounded once at the end: like the C library's pow,   *)
(* the result is within one unit in the last place of the exact power.     *)
WNorm(t, rem, e, st) ==
    IF NDigits(t) = 2 * Prec
    THEN [a |-> t, e |-> e + 2 * Prec, st |-> st \/ rem # 0]
    ELSE [a |-> t * 10 + (rem \div Pow10(Prec - 1)),
          e |-> e + 2 * Prec - 1,
          st |-> st \/ rem % Pow10(Prec - 1) # 0]

WSum(hh, mid, low, e, st) ==
    WNorm(hh + (mid \div Pow10(Prec)), mid % Pow10(Prec), e, st \/ low # 0)

WParts(u1, u0, v1, v0, e, st) ==
    WSum(u1 * v1, u1 * v0 + u0 * v1 + ((u0 * v0) \div Pow10(Prec)),
         (u0 * v0) % Pow10(Prec), e, st)

WMul(u, v) ==
    WParts(u.a \div Pow10(Prec), u.a % Pow10(Prec),
           v.a \div Pow10(Prec), v.a % Pow10(Prec), u.e + v.e, u.st \/ v.st)

WSquare(h) == WMul(h, h)

RECURSIVE PowWide(_, _)
PowWide(x, n) ==
    IF n = 1 THEN [a |-> Abs(x.m) * Pow10(Prec), e |-> x.e - Prec, st |-> FALSE]
    ELSE IF n % 2 = 0 THEN WSquare(PowWide(x, n \div 2))
    ELSE WMul(PowWide(x, n - 1), PowWide(x, 1))

PowRound(s, w) == NormS(s * w.a, w.e, w.st)

FPow(x, n) ==
    IF n = 0 THEN F(1, 0)
    ELSE IF x.m = 0 THEN Zero
    ELSE PowRound(IF x.m < 0 /\ n % 2 = 1 THEN -1 ELSE 1, PowWide(x, n))

(* round(x, nd): the nearest multiple of 10^-nd, ties to even. *)
round(x, nd) ==
    IF x.e >= -nd THEN x
    ELSE IF -nd - x.e > Prec THEN Zero
    ELSE Norm(Sgn(x.m) * RoundDigits(Abs(x.m), -nd - x.e, FALSE), -nd)

(* int(x): truncation toward zero. *)
int(x) ==
    IF x.e >= 0 THEN x.m * Pow10(x.e)
    ELSE IF -x.e > Prec THEN 0
    ELSE Sgn(x.m) * (Abs(x.m) \div Pow10(-x.e))

(***************************************************************************)
(* app/settings.py                                                         *)
(***************************************************************************)
DEFAULT_FUN_RATIO == F(15, -2)
MAX_DTI_RATIO == F(4, -1)
MAX_CSV_SIZE_MB == 5

(***************************************************************************)
(* app/services/calculators.py                                             *)
(***************************************************************************)
(* The ratio held at 1. *)
dtiClamped(monthly_debt, monthly_income) ==
    IF FLe(monthly_income, Zero) THEN Zero
    ELSE IF FGt(FDiv(monthly_debt, monthly_income), F(1, 0)) THEN F(1, 0)
    ELSE FDiv(monthly_debt, monthly_income)

dti(monthly_debt, monthly_income) ==
    IF FLe(monthly_income, Zero) THEN Zero
    ELSE FDiv(monthly_debt, monthly_income)

(* annual_rate_pct / 100 / 12 *)
MonthlyRate(annual_rate_pct) ==
    FDiv(FDiv(annual_rate_pct, F(100, 0)), F(12, 0))

(* math.pow(1 + monthly_rate, term_months) *)
Growth(monthly_rate, term_months) ==
    FPow(FAdd(F(1, 0), monthly_rate), term_months)

(* if denominator == 0: return 0.0; return numerator / denominator *)
Quotient(numerator, denominator) ==
    IF denominator.m = 0 THEN Zero ELSE FDiv(numerator, denominator)

(* pw stands for math.pow(1 + monthly_rate, term_months) *)
EmiFormula(principal, monthly_rate, pw) ==
    Quotient(FMul(FMul(principal, monthly_rate), pw), FSub(pw, F(1, 0)))

EmiAtRate(principal, monthly_rate, term_months) ==
    EmiFormula(principal, monthly_rate, Growth(monthly_rate, term_months))

emi(principal, annual_rate_pct, term_months) ==
    IF FLe(principal, Zero) \/ term_months < 1 THEN Zero
    ELSE IF annual_rate_pct.m = 0 THEN FDiv(principal, FromInt(term_months))
    ELSE EmiAtRate(principal, MonthlyRate(annual_rate_pct), term_months)

(* The inverse with (1+r)^n for (1+r)^n - 1 in the numerator. *)
PrincipalFormulaNoMinusOne(emi_value, monthly_rate, pw) ==
    Quotient(FMul(emi_value, pw), FMul(monthly_rate, pw))

PrincipalFormula(emi_value, monthly_rate, pw) ==
    Quotient(FMul(emi_value, FSub(pw, F(1, 0))), FMul(monthly_rate, pw))

PrincipalAtRate(emi_value, monthly_rate, term_months) ==
    PrincipalFormula(emi_value, monthly_rate,
                     Growth(monthly_rate, term_months))

principal_from_emi(emi_value, annual_rate_pct, term_months) ==
    IF FLe(emi_value, Zero) \/ term_months < 1 THEN Zero
    ELSE IF annual_rate_pct.m = 0 THEN FMul(emi_value, FromInt(term_months))
    ELSE PrincipalAtRate(emi_value, MonthlyRate(annual_rate_pct), term_months)

(* The result, or the exception raised. *)
(* The largest decimal exponent of a float: math.pow raises OverflowError  *)
(* when its result lies beyond it.                                         *)

Overflows(x) == x.m # 0 /\ x.e + Prec - 1 > MaxExp10

(* current_cost * math.pow(1 + rate, years) (line 126) *)
ProjectedCost(current_cost, pw) ==
    IF Overflows(pw) THEN [raised |-> "OverflowError"]
    ELSE [raised |-> "none", value |-> FMul(current_cost, pw)]

inflation_projection(current_cost, annual_cpi_pct, years) ==
    IF FLt(current_cost, Zero) \/ years < 0 THEN [raised |-> "ValueError"]
    ELSE ProjectedCost(current_cost,
                       FPow(FAdd(F(1, 0), FDiv(annual_cpi_pct, F(100, 0))),
                            years))

(* The budget with the ratio checked and the income not. *)
fun_budgetAnyIncome(monthly_income, fun_ratio) ==
    IF ~(FLe(Zero, fun_ratio) /\ FLe(fun_ratio, F(1, 0)))
    THEN [raised |-> "ValueError"]
    ELSE [raised |-> "none", value |-> FMul(monthly_income, fun_ratio)]

fun_budget(monthly_income, fun_ratio) ==
    IF FLt(monthly_income, Zero) THEN [raised |-> "ValueError"]
    ELSE IF ~(FLe(Zero, fun_ratio) /\ FLe(fun_ratio, F(1, 0)))
         THEN [raised |-> "ValueError"]
    ELSE [raised |-> "none", value |-> FMul(monthly_income, fun_ratio)]

(***************************************************************************)
(* State.  pc: "idle" (no request in progress), "test" (at the condition   *)
(* of the while loop of _simulate_payoff), "body" (at the top of its       *)
(* body), "done" (the operation returned).                                 *)
(* op: the operation called; req: its arguments; frame: the locals of the  *)
(* endpoint; sim: the locals of _simulate_payoff; resp: what the           *)
(* operation returned or raised; db: the rows the session reads.           *)
(***************************************************************************)
VARIABLES pc, op, req, frame, sim, resp, db

vars == <<pc, op, req, frame, sim, resp, db>>

None == [none |-> TRUE]

(* max_months: int = 1200 *)
DefaultMaxMonths == 1200

(***************************************************************************)
(* Inputs.                                                                 *)
(***************************************************************************)
(* A small iteration ceiling passed explicitly to _simulate_payoff. *)
SmallCap == 2

Principals == {F(-5, 2), Zero, F(1, 3), F(12, 2), F(1, 9)}
RatePcts == {F(-2, 0), Zero, F(12, 0), F(1, -3)}
Payments == {F(-1, 1), Zero, F(1, 1), F(101, -1), F(25, 1), F(6, 2)}
MaxMonthsArgs == {0, SmallCap, DefaultMaxMonths}

(* LoanPayoffPlanRequest *)
PlanPrincipals == {Zero, F(1, 3), F(12, 2), F(1, 9)}
PlanRatePcts == {Zero, F(12, 0), F(1, -3)}
PlanTerms == {1, 3, 12}
ExtraPayments == {F(-5, 0), Zero, F(1, -2), F(5, 1), F(2, 3)}
(* A term beyond the simulator's ceiling, at the zero rate. *)
LongTerm == 2000
PlanRequests ==
    [principal : PlanPrincipals, annual_rate_pct : PlanRatePcts,
     term_months : PlanTerms, extra_payment : ExtraPayments]
    \cup [principal : PlanPrincipals, annual_rate_pct : {Zero},
          term_months : {LongTerm}, extra_payment : ExtraPayments]

(* emi followed by principal_from_emi *)
TripPrincipals == {F(1, 0), F(1, 3), F(75, 3)}
TripRatePcts == {Zero, F(1, -3), F(9, 0), F(12, 0)}
TripTerms == {1, 3, 12, 60}

(* The users, and the rows of the tables that get_dashboard reads. *)
Users == {1, 2}
MaxExpenses == 1
MaxDebts == 2
MaxGoals == 1
NetIncomes == {F(-1, 3), Zero, F(1, 3)}
ExpenseRows == [user_id : Users, amount : {F(3, 2)}]
DebtRows ==
    {[user_id |-> 1, current_emi |-> Zero, principal |-> F(13, 2)],
     [user_id |-> 1, current_emi |-> F(75, 1), principal |-> F(12, 3)],
     [user_id |-> 2, current_emi |-> F(25, 1), principal |-> F(13, 2)]}
GoalRows ==
    {[user_id |-> 1, target_amount |-> Zero, saved_amount |-> Zero],
     [user_id |-> 2, target_amount |-> F(1, 3), saved_amount |-> F(25, 1)]}

(* Arguments of dti *)
DtiDebts == {Zero, F(15, 2)}
DtiIncomes == {F(-1, 3), Zero, F(1, 3)}

(* Arguments of inflation_projection *)
CurrentCosts == {F(-1, 2), Zero, F(1, 2), F(995, -1)}
CpiRates == {F(-3, 2), Zero, F(5, 0), F(1, 200)}
ProjectionYears == {-1, 0, 1, 2, 3}

(* InflationForecastRequest *)
MaxYears == 4
ForecastPrices == {F(-1, 2), Zero, F(1, 2), F(995, -1)}
ForecastRates == {F(-5, 0), Zero, F(1, -1), F(5, 0), F(1, 200)}
ForecastYears == 0..MaxYears

(* Arguments of fun_budget *)
FunIncomes == {F(-1, 3), Zero, F(2, 3)}
FunRatios == {F(-1, -1), Zero, F(15, -2), F(1, 0), F(15, -1)}

(* LoanPreAssessmentRequest *)
Incomes ==
    {F(-1, 3), Zero, F(257, 0), F(5, 4), F(75, 3),
     F(1, MinExp10), F(2, MinExp10), F(3, MinExp10)}
ExistingDebts == {Zero, F(25, -1), F(1, 4), F(2, 4), F(3, 4), F(5, 4)}
AssessRatePcts == {F(-2, 0), Zero, F(9, 0), F(1, -3)}
AssessTerms == {1, 12, 60}

(***************************************************************************)
(* _simulate_payoff (app/routers/calc.py)                                  *)
(***************************************************************************)
(* The loop without its ceiling: while balance > 0 *)
LoopCondNoCeiling(balance, months, max_months) == FGt(balance, Zero)

(* while balance > 0 and months < max_months *)
LoopCond(balance, months, max_months) ==
    FGt(balance, Zero) /\ months < max_months

(* interest = balance * monthly_rate if monthly_rate > 0 else 0.0 *)
Interest(balance, monthly_rate) ==
    IF FGt(monthly_rate, Zero) THEN FMul(balance, monthly_rate) ELSE Zero

(* The balance without its snap to 0.0. *)
NewBalanceUnsnapped(balance, principal_payment) ==
    FSub(balance, principal_payment)

(* balance -= principal_payment; if balance < 1e-6: balance = 0.0 *)
NewBalance(balance, principal_payment) ==
    LET b == FSub(balance, principal_payment)
    IN  IF FLt(b, F(1, -6)) THEN Zero ELSE b

(* The guard with `and` for `or`. *)
EarlyReturnBoth(principal, monthly_payment) ==
    FLe(monthly_payment, Zero) /\ FLe(principal, Zero)

(* if monthly_payment <= 0 or principal <= 0: return 0, 0.0 *)
EarlyReturn(principal, monthly_payment) ==
    FLe(monthly_payment, Zero) \/ FLe(principal, Zero)

(* The locals on entry to the loop. *)
SimEnter(principal, annual_rate_pct, monthly_payment, max_months) ==
    [principal |-> principal,
     annual_rate_pct |-> annual_rate_pct,
     monthly_payment |-> monthly_payment,
     max_months |-> max_months,
     monthly_rate |-> MonthlyRate(annual_rate_pct),
     balance |-> principal,
     months |-> 0,
     total_interest |-> Zero,
     iters |-> 0,
     exit |-> "none"]

(***************************************************************************)
(* loan_payoff_plan (app/routers/calc.py)                                  *)
(***************************************************************************)
(* months_saved = 0; interest_saved = 0.0 *)
NoSavings == [months_saved |-> 0, interest_saved |-> Zero]

(* The savings without the comparison against the term. *)
PayoffSavingsAny(term_months, total_interest, accel_months, accel_interest) ==
    IF accel_months # 0
    THEN [months_saved |-> term_months - accel_months,
          interest_saved |-> FMax(Zero, FSub(total_interest, accel_interest))]
    ELSE NoSavings

(* if accel_months and accel_months < request.term_months: ... *)
PayoffSavings(term_months, total_interest, accel_months, accel_interest) ==
    IF accel_months # 0 /\ accel_months < term_months
    THEN [months_saved |-> term_months - accel_months,
          interest_saved |-> FMax(Zero, FSub(total_interest, accel_interest))]
    ELSE NoSavings

(* The locals computed before the extra payment is looked at. *)
PlanFrame(request) ==
    LET base_emi == emi(request.principal, request.annual_rate_pct,
                        request.term_months)
        total_paid == FMul(base_emi, FromInt(request.term_months))
    IN  [base_emi |-> base_emi,
         total_paid |-> total_paid,
         total_interest |-> FSub(total_paid, request.principal),
         accelerated_payment |-> FAdd(base_emi, request.extra_payment),
         simulated |-> FALSE,
         accel_months |-> 0,
         accel_interest |-> Zero]

PlanResponse(f, savings) ==
    [status |-> "ok",
     monthly_emi |-> round(f.base_emi, 2),
     total_interest |-> round(f.total_interest, 2),
     total_paid |-> round(f.total_paid, 2),
     months_saved |-> savings.months_saved,
     interest_saved |-> round(savings.interest_saved, 2),
     meta |-> "CALC_DISCLAIMER"]

(* What the caller of _simulate_payoff does with (months, total_interest):  *)
(* a direct call returns the pair; loan_payoff_plan goes on from line 136.  *)
SimReturned(months, total_interest) ==
    /\ pc' = "done"
    /\ IF op = "loan_payoff_plan"
       THEN /\ frame' = [frame EXCEPT !.simulated = TRUE,
                                      !.accel_months = months,
                                      !.accel_interest = total_interest]
            /\ resp' = PlanResponse(frame,
                          PayoffSavings(req.term_months, frame.total_interest,
                                        months, total_interest))
       ELSE /\ frame' = frame
            /\ resp' = [status |-> "ok", months |-> months,
                        total_interest |-> total_interest]
    /\ UNCHANGED <<op, req, db>>

LoanPayoffPlanCall ==
    /\ pc = "idle"
    /\ db' = db
    /\ \E request \in PlanRequests :
          LET f == PlanFrame(request)
              principal == request.principal
              annual_rate_pct == request.annual_rate_pct
              term_months == request.term_months
          IN  /\ op' = "loan_payoff_plan"
              /\ req' = request
              /\ IF ~FGt(request.extra_payment, Zero)
                 THEN /\ pc' = "done"
                      /\ frame' = f
                      /\ sim' = None
                      /\ resp' = PlanResponse(f, NoSavings)
                 ELSE IF EarlyReturn(principal, f.accelerated_payment)
                 THEN /\ pc' = "done"
                      /\ frame' = [f EXCEPT !.simulated = TRUE]
                      /\ sim' = None
                      /\ resp' = PlanResponse(f,
                                    PayoffSavings(term_months, f.total_interest,
                                                  0, Zero))
                 ELSE /\ pc' = "test"
                      /\ frame' = f
                      /\ sim' = SimEnter(principal, annual_rate_pct,
                                         f.accelerated_payment, DefaultMaxMonths)
                      /\ resp' = None

(***************************************************************************)
(* loan_pre_assessment (app/routers/calc.py)                               *)
(***************************************************************************)
(* max_debt_capacity = request.income * settings.MAX_DTI_RATIO *)
MaxDebtCapacity(income) == FMul(income, MAX_DTI_RATIO)

(* The difference without its floor at 0. *)
AffordableEmiNoFloor(max_debt_capacity, existing_monthly_debt) ==
    FSub(max_debt_capacity, existing_monthly_debt)

(* affordable_emi = max(0.0, max_debt_capacity - existing_monthly_debt) *)
AffordableEmi(max_debt_capacity, existing_monthly_debt) ==
    FMax(Zero, FSub(max_debt_capacity, existing_monthly_debt))

(* stress_rate = request.annual_rate_pct + 2 *)
StressRate(annual_rate_pct) == FAdd(annual_rate_pct, FromInt(2))

(* The income left as it is. *)
ReducedIncomeUnshocked(income) == income

(* reduced_income = request.income * 0.9 *)
ReducedIncome(income) == FMul(income, F(9, -1))

(* The shocks compounded: the income scenario on the rate-shocked EMI. *)
IncomeScenarioEmiCompounded(affordable_emi, stress_emi_rate) == stress_emi_rate

(* The payment of the income scenario: affordable_emi (lines 91, 96). *)
IncomeScenarioEmi(affordable_emi, stress_emi_rate) == affordable_emi

(* The threshold taken strictly. *)
IsAffordableStrict(stress_dti) == FLt(stress_dti, MAX_DTI_RATIO)

(* is_affordable=stress_dti <= settings.MAX_DTI_RATIO *)
IsAffordable(stress_dti) == FLe(stress_dti, MAX_DTI_RATIO)

StressTestResult(scenario, new_emi, stress_dti) ==
    [scenario |-> scenario,
     new_emi |-> round(new_emi, 2),
     dti |-> round(stress_dti, 4),
     is_affordable |-> IsAffordable(stress_dti)]

(* The locals of the endpoint at its return, and the response. *)
loan_pre_assessment(request) ==
    LET base_dti == dti(request.existing_monthly_debt, request.income)
        max_debt_capacity == MaxDebtCapacity(request.income)
        affordable_emi == AffordableEmi(max_debt_capacity,
                                        request.existing_monthly_debt)
        estimated_principal ==
            principal_from_emi(affordable_emi, request.annual_rate_pct,
                               request.term_months)
        stress_rate == StressRate(request.annual_rate_pct)
        stress_emi_rate == emi(estimated_principal, stress_rate,
                               request.term_months)
        stress_dti_rate ==
            dti(FAdd(request.existing_monthly_debt, stress_emi_rate),
                request.income)
        reduced_income == ReducedIncome(request.income)
        income_emi == IncomeScenarioEmi(affordable_emi, stress_emi_rate)
        stress_dti_income ==
            dti(FAdd(request.existing_monthly_debt, income_emi),
                reduced_income)
    IN  [base_dti |-> base_dti,
         max_debt_capacity |-> max_debt_capacity,
         affordable_emi |-> affordable_emi,
         estimated_principal |-> estimated_principal,
         stress_rate |-> stress_rate,
         stress_emi_rate |-> stress_emi_rate,
         stress_dti_rate |-> stress_dti_rate,
         reduced_income |-> reduced_income,
         stress_dti_income |-> stress_dti_income,
         response |->
           [status |-> "ok",
            dti |-> round(base_dti, 4),
            affordable_emi |-> round(affordable_emi, 2),
            estimated_principal |-> round(estimated_principal, 2),
            stress_tests |->
              <<StressTestResult("Interest rate +2%", stress_emi_rate,
                                 stress_dti_rate),
                StressTestResult("Income -10%", income_emi,
                                 stress_dti_income)>>,
            meta |-> "LOAN_DISCLAIMER"]]

LoanPreAssessmentCall ==
    /\ pc = "idle"
    /\ \E income \in Incomes, existing_monthly_debt \in ExistingDebts,
          annual_rate_pct \in AssessRatePcts, term_months \in AssessTerms :
          LET request == [income |-> income,
                          existing_monthly_debt |-> existing_monthly_debt,
                          annual_rate_pct |-> annual_rate_pct,
                          term_months |-> term_months]
              r == loan_pre_assessment(request)
          IN  /\ op' = "loan_pre_assessment"
              /\ req' = request
              /\ frame' = r
              /\ resp' = r.response
    /\ pc' = "done"
    /\ sim' = None
    /\ db' = db

SimulatePayoffCall ==
    /\ pc = "idle"
    /\ db' = db
    /\ \E principal \in Principals, annual_rate_pct \in RatePcts,
          monthly_payment \in Payments, max_months \in MaxMonthsArgs :
          /\ op' = "_simulate_payoff"
          /\ req' = [principal |-> principal,
                     annual_rate_pct |-> annual_rate_pct,
                     monthly_payment |-> monthly_payment,
                     max_months |-> max_months]
          /\ frame' = None
          /\ IF EarlyReturn(principal, monthly_payment)
             THEN /\ pc' = "done"
                  /\ sim' = None
                  /\ resp' = [status |-> "ok", months |-> 0,
                              total_interest |-> Zero]
             ELSE /\ pc' = "test"
                  /\ sim' = SimEnter(principal, annual_rate_pct,
                                     monthly_payment, max_months)
                  /\ resp' = None

(* The loop condition holds (line 33): into the body. *)
LoopTest ==
    /\ pc = "test"
    /\ LoopCond(sim.balance, sim.months, sim.max_months)
    /\ pc' = "body"
    /\ UNCHANGED <<op, req, frame, sim, resp, db>>

(* The loop condition fails (line 33), and the return (line 48). *)
LoopExit ==
    /\ pc = "test"
    /\ ~LoopCond(sim.balance, sim.months, sim.max_months)
    /\ sim' = [sim EXCEPT !.exit = "cond"]
    /\ SimReturned(sim.months, sim.total_interest)

(* A pass through the body that pays principal (lines 34-46). *)
LoopIter ==
    /\ pc = "body"
    /\ LET interest == Interest(sim.balance, sim.monthly_rate)
           principal_payment == FSub(sim.monthly_payment, interest)
       IN  /\ ~FLe(principal_payment, Zero)
           /\ sim' = [sim EXCEPT
                        !.balance = NewBalance(sim.balance, principal_payment),
                        !.total_interest = FAdd(sim.total_interest, interest),
                        !.months = sim.months + 1,
                        !.iters = sim.iters + 1]
    /\ pc' = "test"
    /\ UNCHANGED <<op, req, frame, resp, db>>

(* A pass that leaves at the break (lines 34-39), and the return. *)
LoopBreak ==
    /\ pc = "body"
    /\ LET interest == Interest(sim.balance, sim.monthly_rate)
           principal_payment == FSub(sim.monthly_payment, interest)
       IN  FLe(principal_payment, Zero)
    /\ sim' = [sim EXCEPT !.iters = sim.iters + 1, !.exit = "break"]
    /\ SimReturned(sim.months, sim.total_interest)

(***************************************************************************)
(* emi and principal_from_emi applied in turn (calculators.py)             *)
(***************************************************************************)
EmiRoundTrip ==
    /\ pc = "idle"
    /\ \E principal \in TripPrincipals, annual_rate_pct \in TripRatePcts,
          term_months \in TripTerms :
          /\ req' = [principal |-> principal,
                     annual_rate_pct |-> annual_rate_pct,
                     term_months |-> term_months]
          /\ resp' = [status |-> "ok",
                      emi |-> emi(principal, annual_rate_pct, term_months),
                      principal |->
                        principal_from_emi(
                          emi(principal, annual_rate_pct, term_months),
                          annual_rate_pct, term_months)]
    /\ op' = "emi_round_trip"
    /\ pc' = "done"
    /\ frame' = None
    /\ sim' = None
    /\ db' = db

(***************************************************************************)
(* The rows of the store.  The endpoints that write them are not in the    *)
(* calculation router; a row is appended at the end of its table.          *)
(***************************************************************************)
AddExpense ==
    /\ pc = "idle"
    /\ Len(db.expenses) < MaxExpenses
    /\ \E row \in ExpenseRows :
          db' = [db EXCEPT !.expenses = Append(db.expenses, row)]
    /\ UNCHANGED <<pc, op, req, frame, sim, resp>>

AddDebt ==
    /\ pc = "idle"
    /\ Len(db.debts) < MaxDebts
    /\ \E row \in DebtRows :
          db' = [db EXCEPT !.debts = Append(db.debts, row)]
    /\ UNCHANGED <<pc, op, req, frame, sim, resp>>

AddGoal ==
    /\ pc = "idle"
    /\ Len(db.goals) < MaxGoals
    /\ \E row \in GoalRows :
          db' = [db EXCEPT !.goals = Append(db.goals, row)]
    /\ UNCHANGED <<pc, op, req, frame, sim, resp>>

(***************************************************************************)
(* get_dashboard (calc.py)                                                 *)
(***************************************************************************)
(* db.query(...).filter(<row>.user_id == user.id).all() *)
OwnedBy(user_id, row) == row.user_id = user_id

(* The rows of every user. *)
QueryAll(table, user_id) == table

Query(table, user_id) == SelectSeq(table, LAMBDA row : OwnedBy(user_id, row))

(* sum(<row>.<column> for <row> in rows): from 0, in the order of the rows *)
RECURSIVE SumFirst(_, _, _)
SumFirst(rows, column, n) ==
    IF n = 0 THEN Zero
    ELSE FAdd(SumFirst(rows, column, n - 1), rows[n][column])

sum(rows, column) == SumFirst(rows, column, Len(rows))

(* surplus = total_income - total_expenses - total_debt_emi *)
Surplus(total_income, total_expenses, total_debt_emi) ==
    FSub(FSub(total_income, total_expenses), total_debt_emi)

(* goal_allocation = surplus * 0.2 if surplus > 0 else 0 *)
GoalAllocation(surplus) ==
    IF FGt(surplus, Zero) THEN FMul(surplus, F(2, -1)) ELSE Zero

(* The remainder without its floor at 0. *)
SafeSpendNoFloor(surplus, goal_allocation) == FSub(surplus, goal_allocation)

(* safe_spend = max(0, surplus - goal_allocation) *)
SafeSpend(surplus, goal_allocation) ==
    FMax(Zero, FSub(surplus, goal_allocation))

(* goal_progress = (saved / target * 100) if target > 0 else 0 *)
GoalProgress(total_goal_saved, total_goal_target) ==
    IF FGt(total_goal_target, Zero)
    THEN FMul(FDiv(total_goal_saved, total_goal_target), F(100, 0))
    ELSE Zero

(* An Optional[int] that is present. *)
Months(n) == [months |-> n]

(* The estimate with 0 where there is no EMI. *)
DebtEtaZero(total_principal_remaining, total_debt_emi) ==
    IF FGt(total_debt_emi, Zero)
    THEN Months(int(FDiv(total_principal_remaining, total_debt_emi)))
    ELSE Months(0)

(* debt_eta = int(total_principal_remaining / total_debt_emi)              *)
(*            if total_debt_emi > 0 else None                              *)
DebtEta(total_principal_remaining, total_debt_emi) ==
    IF FGt(total_debt_emi, Zero)
    THEN Months(int(FDiv(total_principal_remaining, total_debt_emi)))
    ELSE None

(* The locals up to the call of fun_budget (lines 184-199). *)
DashboardTotals(expenses, debts, goals, total_income) ==
    [expenses |-> expenses, debts |-> debts, goals |-> goals,
     total_expenses |-> sum(expenses, "amount"),
     total_debt_emi |-> sum(debts, "current_emi"),
     total_income |-> total_income,
     surplus |-> Surplus(total_income, sum(expenses, "amount"),
                         sum(debts, "current_emi"))]

DashboardRatios(t) ==
    [dti_ratio |-> dti(t.total_debt_emi, t.total_income),
     goal_allocation |-> GoalAllocation(t.surplus),
     safe_spend |-> SafeSpend(t.surplus, GoalAllocation(t.surplus))]

(* The locals after it (lines 202-211). *)
DashboardRest(t, fun_budget_amt) ==
    [fun_budget_amt |-> fun_budget_amt,
     total_goal_target |-> sum(t.goals, "target_amount"),
     total_goal_saved |-> sum(t.goals, "saved_amount"),
     goal_progress |-> GoalProgress(sum(t.goals, "saved_amount"),
                                    sum(t.goals, "target_amount")),
     total_principal_remaining |-> sum(t.debts, "principal"),
     debt_eta |-> DebtEta(sum(t.debts, "principal"), t.total_debt_emi)]

(* DashboardSummary(...) (lines 213-222) *)
DashboardSummary(f) ==
    [status |-> "ok",
     total_income |-> round(f.total_income, 2),
     total_expenses |-> round(f.total_expenses, 2),
     surplus |-> round(f.surplus, 2),
     dti |-> round(f.dti_ratio, 4),
     safe_to_spend |-> round(f.safe_spend, 2),
     fun_budget |-> round(f.fun_budget_amt, 2),
     goal_progress_pct |-> round(f.goal_progress, 2),
     debt_payoff_eta_months |-> f.debt_eta]

Merge(f, g) ==
    [k \in DOMAIN f \cup DOMAIN g |-> IF k \in DOMAIN g THEN g[k] ELSE f[k]]

DashboardLocals(t) == Merge(t, DashboardRatios(t))

DashboardOutcome(f, budget) ==
    IF budget.raised # "none"
    THEN [frame |-> f, resp |-> [status |-> "error", raised |-> budget.raised]]
    ELSE [frame |-> Merge(f, DashboardRest(f, budget.value)),
          resp |-> DashboardSummary(Merge(f, DashboardRest(f, budget.value)))]

get_dashboard(user_id) ==
    DashboardOutcome(
        DashboardLocals(
            DashboardTotals(Query(db.expenses, user_id),
                            Query(db.debts, user_id),
                            Query(db.goals, user_id),
                            db.income[user_id])),
        fun_budget(db.income[user_id], DEFAULT_FUN_RATIO))

GetDashboard ==
    /\ pc = "idle"
    /\ \E user_id \in Users :
          /\ req' = [user_id |-> user_id]
          /\ frame' = get_dashboard(user_id).frame
          /\ resp' = get_dashboard(user_id).resp
    /\ op' = "get_dashboard"
    /\ pc' = "done"
    /\ sim' = None
    /\ db' = db

(***************************************************************************)
(* dti called by itself (calculators.py)                                   *)
(***************************************************************************)
DtiCall ==
    /\ pc = "idle"
    /\ \E monthly_debt \in DtiDebts, monthly_income \in DtiIncomes :
          /\ req' = [monthly_debt |-> monthly_debt,
                     monthly_income |-> monthly_income]
          /\ resp' = [status |-> "ok",
                      value |-> dti(monthly_debt, monthly_income)]
    /\ op' = "dti"
    /\ pc' = "done"
    /\ frame' = None
    /\ sim' = None
    /\ db' = db

(***************************************************************************)
(* inflation_projection called by itself (calculators.py)                  *)
(***************************************************************************)
Outcome(result) ==
    IF result.raised # "none"
    THEN [status |-> "error", raised |-> result.raised]
    ELSE [status |-> "ok", value |-> result.value]

InflationProjectionCall ==
    /\ pc = "idle"
    /\ \E current_cost \in CurrentCosts, annual_cpi_pct \in CpiRates,
          years \in ProjectionYears :
          /\ req' = [current_cost |-> current_cost,
                     annual_cpi_pct |-> annual_cpi_pct,
                     years |-> years]
          /\ resp' = Outcome(inflation_projection(current_cost,
                                                  annual_cpi_pct, years))
    /\ op' = "inflation_projection"
    /\ pc' = "done"
    /\ frame' = None
    /\ sim' = None
    /\ db' = db

(***************************************************************************)
(* inflation_forecast (calc.py)                                            *)
(***************************************************************************)
(* The entry with its year counted from 0. *)
ProjectionEntryFromZero(year, future_cost) ==
    [year |-> year - 1, estimated_price |-> round(future_cost, 2)]

(* InflationProjection(year=year, estimated_price=round(future_cost, 2)) *)
ProjectionEntry(year, future_cost) ==
    [year |-> year, estimated_price |-> round(future_cost, 2)]

(* One pass of the loop (lines 159-167), or the error passed on. *)
ForecastStep(sofar, year, result) ==
    IF sofar.raised # "none" THEN sofar
    ELSE IF result.raised # "none"
    THEN [sofar EXCEPT !.raised = result.raised]
    ELSE [raised |-> "none",
          future_costs |-> Append(sofar.future_costs, result.value),
          projections |-> Append(sofar.projections,
                                 ProjectionEntry(year, result.value))]

(* for year in range(1, request.years + 1) *)
RECURSIVE ForecastLoop(_, _)
ForecastLoop(request, year) ==
    IF year < 1
    THEN [raised |-> "none", future_costs |-> <<>>, projections |-> <<>>]
    ELSE ForecastStep(ForecastLoop(request, year - 1), year,
                      inflation_projection(request.current_price,
                                           request.annual_cpi_rate, year))

ForecastResponse(f) ==
    IF f.raised # "none" THEN [status |-> "error", raised |-> f.raised]
    ELSE [status |-> "ok", projections |-> f.projections,
          meta |-> "PROJECTION_DISCLAIMER"]

InflationForecastCall ==
    /\ pc = "idle"
    /\ \E request \in [current_price : ForecastPrices,
                        annual_cpi_rate : ForecastRates,
                        years : ForecastYears] :
          /\ req' = request
          /\ frame' = ForecastLoop(request, request.years)
          /\ resp' = ForecastResponse(ForecastLoop(request, request.years))
    /\ op' = "inflation_forecast"
    /\ pc' = "done"
    /\ sim' = None
    /\ db' = db

(***************************************************************************)
(* fun_budget called by itself (calculators.py)                            *)
(***************************************************************************)
FunBudgetCall ==
    /\ pc = "idle"
    /\ \E monthly_income \in FunIncomes, fun_ratio \in FunRatios :
          /\ req' = [monthly_income |-> monthly_income,
                     fun_ratio |-> fun_ratio]
          /\ resp' = Outcome(fun_budget(monthly_income, fun_ratio))
    /\ op' = "fun_budget"
    /\ pc' = "done"
    /\ frame' = None
    /\ sim' = None
    /\ db' = db

(***************************************************************************)
(* import_csv (app/routers/data.py over app/services/imports.py and        *)
(* app/services/audit.py)                                                  *)
(*                                                                         *)
(* A file name is the sequence of its characters.  The contents of an      *)
(* upload are its length in bytes, whether the bytes decode as UTF-8, and  *)
(* the rows csv.DictReader yields: a row has as many fields as the header, *)
(* fewer or more, and the text of its amount cell.  An amount is a float,  *)
(* or NaN, which float() returns for the text "nan".  Of an Expense the    *)
(* owner and the amount are kept (the columns get_dashboard reads), of the *)
(* audit payload the file name and the two counts.  has_header is passed   *)
(* to the parser, which does not read it.                                  *)
(***************************************************************************)
NaN == [nan |-> TRUE]

IsNaN(x) == "nan" \in DOMAIN x

(* str.lower() on the characters that occur. *)
Lower(c) ==
    CASE c = "A" -> "a" [] c = "C" -> "c" [] c = "S" -> "s" [] c = "V" -> "v"
      [] OTHER -> c

lower(name) == [i \in 1..Len(name) |-> Lower(name[i])]

endswith(name, suffix) ==
    /\ Len(name) >= Len(suffix)
    /\ SubSeq(name, Len(name) - Len(suffix) + 1, Len(name)) = suffix

(* file.filename.lower().endswith(".csv") *)
IsCsvName(filename) == endswith(lower(filename), <<".", "c", "s", "v">>)

(* max_bytes = max_size_mb * 1024 * 1024 *)
MaxBytes(max_size_mb) == max_size_mb * 1024 * 1024

(* if file_size > max_bytes: raise ValueError *)
validate_csv_size(file_size, max_size_mb) ==
    IF file_size > MaxBytes(max_size_mb)
    THEN [raised |-> "ValueError"] ELSE [raised |-> "none"]

(* float(amount_clean), 0.0 on ValueError (imports.py lines 47-52). *)
ParseAmount(cell) ==
    IF cell.text = "number" THEN cell.value
    ELSE IF cell.text = "nan" THEN NaN
    ELSE Zero

RECURSIVE ParseRows(_)
ParseRows(rows) ==
    IF rows = <<>> THEN <<>>
    ELSE <<[amount |-> ParseAmount(Head(rows).amount)]>>
         \o ParseRows(Tail(rows))

(* A row shorter or longer than the header has a None value or a None key, *)
(* and .strip() on it raises (line 38).                                    *)
RowRaises(row) == row.fields # "ok"

(* parse_bank_statement_csv: any exception becomes ValueError (line 71). *)
parse_bank_statement_csv(contents) ==
    IF ~contents.decodable \/ \E i \in 1..Len(contents.rows) :
                                  RowRaises(contents.rows[i])
    THEN [raised |-> "ValueError"]
    ELSE [raised |-> "none", transactions |-> ParseRows(contents.rows)]

(* if amount <= 0: continue -- the comparison is False for NaN. *)
Skipped(amount) == ~IsNaN(amount) /\ FLe(amount, Zero)

(* round(abs(amount), 2) *)
ExpenseAmount(amount) ==
    IF IsNaN(amount) THEN NaN
    ELSE round([m |-> Abs(amount.m), e |-> amount.e], 2)

(* The Expense rows of the loop over the transactions (lines 84-99). *)
RECURSIVE ImportedExpenses(_, _)
ImportedExpenses(user_id, transactions) ==
    IF transactions = <<>> THEN <<>>
    ELSE (IF Skipped(Head(transactions).amount) THEN <<>>
          ELSE <<[user_id |-> user_id,
                  amount |-> ExpenseAmount(Head(transactions).amount)]>>)
         \o ImportedExpenses(user_id, Tail(transactions))

TransactionImport(user_id, filename, rows_processed) ==
    [user_id |-> user_id, csv_filename |-> filename,
     processed_count |-> rows_processed]

(* log_action(db, "csv_imported", user, {...}) *)
AuditLog(user_id, filename, rows_processed, expenses_added) ==
    [user_id |-> user_id, action |-> "csv_imported",
     payload |-> [filename |-> filename, rows_processed |-> rows_processed,
                  expenses_added |-> expenses_added]]

(* The store after the commits of lines 107 and of log_action. *)
StoreAfterImport(store, user_id, filename, transactions, expenses) ==
    [store EXCEPT
       !.expenses = store.expenses \o expenses,
       !.imports = Append(store.imports,
                          TransactionImport(user_id, filename,
                                            Len(transactions))),
       !.audit_log = Append(store.audit_log,
                            AuditLog(user_id, filename, Len(transactions),
                                     Len(expenses)))]

BadRequest(detail) == [status |-> 400, detail |-> detail]

CSVUploadResponse(filename, rows_processed, expenses_added) ==
    [status |-> 201, filename |-> filename,
     rows_processed |-> rows_processed, expenses_added |-> expenses_added]

(* The handler from its first line to its return or its HTTPException. *)
import_csv(store, user_id, file) ==
    IF ~IsCsvName(file.filename)
    THEN [db |-> store, resp |-> BadRequest("Only CSV files are supported")]
    ELSE IF validate_csv_size(file.contents.size,
                              MAX_CSV_SIZE_MB).raised # "none"
    THEN [db |-> store, resp |-> BadRequest("File size exceeds 5MB limit")]
    ELSE IF parse_bank_statement_csv(file.contents).raised # "none"
    THEN [db |-> store, resp |-> BadRequest("Failed to parse CSV")]
    ELSE [db |-> StoreAfterImport(store, user_id, file.filename,
               parse_bank_statement_csv(file.contents).transactions,
               ImportedExpenses(user_id,
                   parse_bank_statement_csv(file.contents).transactions)),
          resp |-> CSVUploadResponse(file.filename,
               Len(parse_bank_statement_csv(file.contents).transactions),
               Len(ImportedExpenses(user_id,
                   parse_bank_statement_csv(file.contents).transactions)))]

(* Uploads. *)
Filenames ==
    {<<"a", ".", "c", "s", "v">>, <<"A", ".", "C", "S", "V">>,
     <<"a", ".", "t", "x", "t">>, <<"c", "s", "v">>}

Cell(text, value) == [text |-> text, value |-> value]
Paid == [fields |-> "ok", amount |-> Cell("number", F(125, -1))]
Precise == [fields |-> "ok", amount |-> Cell("number", F(45678, -4))]
Refund == [fields |-> "ok", amount |-> Cell("number", F(-3, 0))]
Nil == [fields |-> "ok", amount |-> Cell("number", Zero)]
Word == [fields |-> "ok", amount |-> Cell("word", Zero)]
NotANumber == [fields |-> "ok", amount |-> Cell("nan", Zero)]
Short == [fields |-> "short", amount |-> Cell("number", F(125, -1))]
Long == [fields |-> "long", amount |-> Cell("number", F(125, -1))]

RowSeqs ==
    {<<>>, <<Paid>>, <<Refund>>, <<Paid, Nil, Word, Paid>>,
     <<Precise, Paid>>, <<NotANumber>>, <<Paid, NotANumber>>,
     <<Short>>, <<Paid, Long>>}

Contents ==
    {[size |-> 0, decodable |-> TRUE, rows |-> <<>>]}
    \cup [size : {100, MaxBytes(MAX_CSV_SIZE_MB),
                  MaxBytes(MAX_CSV_SIZE_MB) + 1},
          decodable : {TRUE}, rows : RowSeqs]
    \cup [size : {100, MaxBytes(MAX_CSV_SIZE_MB) + 1},
          decodable : {FALSE}, rows : {<<>>}]

(* Imports kept in the store of the model. *)
MaxImports == 2

ImportCsv ==
    /\ pc = "idle"
    /\ Len(db.imports) < MaxImports
    /\ \E user_id \in Users, filename \in Filenames, contents \in Contents :
          /\ req' = [user_id |-> user_id, filename |-> filename,
                     contents |-> contents]
          /\ db' = import_csv(db, user_id, req').db
          /\ resp' = import_csv(db, user_id, req').resp
    /\ op' = "import_csv"
    /\ pc' = "done"
    /\ frame' = None
    /\ sim' = None

(* The response has gone out; the next request may come. *)
Return ==
    /\ pc = "done"
    /\ pc' = "idle"
    /\ op' = "none"
    /\ req' = None
    /\ frame' = None
    /\ sim' = None
    /\ resp' = None
    /\ db' = db

Idle ==
    /\ pc = "idle"
    /\ op = "none"
    /\ req = None
    /\ frame = None
    /\ sim = None
    /\ resp = None

Init ==
    /\ Idle
    /\ db = [income |-> [u \in Users |-> Zero],
             expenses |-> <<>>, debts |-> <<>>, goals |-> <<>>,
             imports |-> <<>>, audit_log |-> <<>>]

Next ==
    \/ SimulatePayoffCall
    \/ LoanPayoffPlanCall
    \/ LoanPreAssessmentCall
    \/ EmiRoundTrip
    \/ InflationProjectionCall
    \/ InflationForecastCall
    \/ LoopTest
    \/ LoopExit
    \/ LoopIter
    \/ LoopBreak
    \/ Return

Spec == Init /\ [][Next]_vars

(* A call that has entered the loop keeps running, the code being          *)
(* synchronous: its position moves on.  Every step of the loop changes pc, *)
(* and one of the four steps is possible at each position.                 *)
Advance == pc \in {"test", "body"} /\ pc' \in {"test", "body", "done"}

FairSpec == Spec /\ WF_pc(Advance)

(***************************************************************************)
(* The dashboard over a store that fills up.                               *)
(***************************************************************************)
InitDash ==
    /\ Idle
    /\ \E income \in [Users -> NetIncomes] :
          db = [income |-> income,
                expenses |-> <<>>, debts |-> <<>>, goals |-> <<>>,
                imports |-> <<>>, audit_log |-> <<>>]

NextDash ==
    \/ AddExpense
    \/ AddDebt
    \/ AddGoal
    \/ GetDashboard
    \/ DtiCall
    \/ FunBudgetCall
    \/ Return

SpecDash == InitDash /\ [][NextDash]_vars

(***************************************************************************)
(* Uploads into an empty store.                                            *)
(***************************************************************************)
NextImport ==
    \/ ImportCsv
    \/ Return

SpecImport == Init /\ [][NextImport]_vars

(***************************************************************************)
(* Properties of _simulate_payoff                                          *)
(***************************************************************************)
Simulating == sim # None

(* The call under way was given a non-negative rate.  (A positive          *)
(* principal and payment follow from having passed the guard.)             *)
NonNegativeRate == Simulating /\ FGe(sim.annual_rate_pct, Zero)

WithinCeiling ==
    NonNegativeRate =>
        /\ FGt(sim.principal, Zero) /\ FGt(sim.monthly_payment, Zero)
        /\ sim.iters <= sim.max_months
        /\ sim.months \in 0..sim.max_months
        /\ (pc = "done" /\ op = "_simulate_payoff" =>
                resp.months \in 0..req.max_months)

(* C1: for principal > 0, rate >= 0 and payment > 0 the simulation always  *)
(* returns: the loop body runs at most max_months times and the month      *)
(* count it returns lies in 0..max_months, however little the payment      *)
(* exceeds the first month's interest.                                     *)
C1_SimulationTerminates ==
    /\ []WithinCeiling
    /\ (pc \in {"test", "body"} /\ NonNegativeRate) ~> (pc = "done")

(* The default ceiling is reached with the balance still open, by a        *)
(* payment less than 1 above the first month's interest.                   *)
C1_Witness ==
    /\ pc = "done" /\ op = "_simulate_payoff"
    /\ Simulating
    /\ FGt(sim.monthly_rate, Zero)
    /\ FGt(sim.monthly_payment, Interest(sim.principal, sim.monthly_rate))
    /\ FLt(FSub(sim.monthly_payment,
                Interest(sim.principal, sim.monthly_rate)), F(1, 0))
    /\ sim.max_months = DefaultMaxMonths
    /\ sim.iters = DefaultMaxMonths
    /\ resp.months = DefaultMaxMonths
    /\ FGt(sim.balance, Zero)

(* C2: with monthly_payment <= 0 or principal <= 0 the simulation returns  *)
(* exactly (0, 0.0) and no iteration of the loop runs, whatever the rate   *)
(* and max_months.                                                         *)
C2_EarlyReturn ==
    op = "_simulate_payoff"
    /\ (FLe(req.monthly_payment, Zero) \/ FLe(req.principal, Zero)) =>
        /\ pc = "done"
        /\ ~Simulating
        /\ resp.months = 0
        /\ resp.total_interest = Zero

(* A positive payment on a non-positive principal, at a positive rate and  *)
(* the default ceiling.                                                    *)
C2_Witness ==
    /\ pc = "done" /\ op = "_simulate_payoff"
    /\ FGt(req.monthly_payment, Zero) /\ FLe(req.principal, Zero)
    /\ FGt(req.annual_rate_pct, Zero)
    /\ req.max_months = DefaultMaxMonths
    /\ resp.months = 0 /\ resp.total_interest = Zero

(***************************************************************************)
(* Properties of loan_payoff_plan                                          *)
(***************************************************************************)
PlanDone == pc = "done" /\ op = "loan_payoff_plan"

(* The month count the accelerated simulation returned (0 when it was not  *)
(* run or returned at its guard).                                          *)
AccelMonths == IF Simulating THEN sim.months ELSE 0

(* The accelerated plan finished in fewer months than the term.            *)
FinishedSooner == AccelMonths \in 1..(req.term_months - 1)

AssessDone == pc = "done" /\ op = "loan_pre_assessment"

Capacity == FMul(req.income, MAX_DTI_RATIO)

(* C4: the affordable payment is max(0, income * MAX_DTI_RATIO -           *)
(* existing_monthly_debt): never negative, 0 when the existing debt meets  *)
(* or exceeds the capacity; income 75000 and debt 10000 at ratio 0.4 give  *)
(* capacity 30000 and affordable payment 20000.                            *)
C4_AffordableEmi ==
    AssessDone =>
        /\ FGe(frame.affordable_emi, Zero)
        /\ (FGe(req.existing_monthly_debt, Capacity) =>
                frame.affordable_emi = Zero)
        /\ (FLt(req.existing_monthly_debt, Capacity) =>
                frame.affordable_emi =
                    FSub(Capacity, req.existing_monthly_debt))
        /\ resp.affordable_emi = round(frame.affordable_emi, 2)
        /\ (req.income = F(75, 3) /\ req.existing_monthly_debt = F(1, 4)
            /\ MAX_DTI_RATIO = F(4, -1) =>
                /\ Capacity = F(3, 4)
                /\ frame.affordable_emi = F(2, 4)
                /\ resp.affordable_emi = F(2, 4))

(* The debt exceeds the capacity of a positive income.                     *)
C4_Witness ==
    /\ AssessDone
    /\ FGt(req.income, Zero)
    /\ FGt(req.existing_monthly_debt, Capacity)
    /\ resp.affordable_emi = Zero

(* C5: exactly two stress results, the rate shock first and the income     *)
(* shock second, each computed from the unshocked figures: the rate        *)
(* scenario takes the EMI of the estimated principal at annual_rate_pct +  *)
(* 2 over the unshocked income, the income scenario takes the unshocked    *)
(* affordable payment over 90% of the income.                              *)
C5_StressScenarios ==
    AssessDone =>
        /\ Len(resp.stress_tests) = 2
        /\ resp.stress_tests[1].scenario = "Interest rate +2%"
        /\ resp.stress_tests[2].scenario = "Income -10%"
        /\ resp.stress_tests[1].new_emi =
             round(emi(frame.estimated_principal,
                       FAdd(req.annual_rate_pct, F(2, 0)),
                       req.term_months), 2)
        /\ resp.stress_tests[1].dti =
             round(dti(FAdd(req.existing_monthly_debt,
                            emi(frame.estimated_principal,
                                FAdd(req.annual_rate_pct, F(2, 0)),
                                req.term_months)),
                       req.income), 4)
        /\ resp.stress_tests[2].new_emi = round(frame.affordable_emi, 2)
        /\ resp.stress_tests[2].dti =
             round(dti(FAdd(req.existing_monthly_debt, frame.affordable_emi),
                       FMul(req.income, F(9, -1))), 4)

(* The two shocks give different payments and different ratios.           *)
C5_Witness ==
    /\ AssessDone
    /\ FGt(req.income, Zero)
    /\ FGt(frame.affordable_emi, Zero)
    /\ resp.stress_tests[1].new_emi # resp.stress_tests[2].new_emi
    /\ resp.stress_tests[1].dti # resp.stress_tests[2].dti

(* The ratio of each scenario: existing debt plus the scenario's payment,  *)
(* over the scenario's income.                                             *)
RateScenarioDti ==
    dti(FAdd(req.existing_monthly_debt, frame.stress_emi_rate), req.income)

IncomeScenarioDti ==
    dti(FAdd(req.existing_monthly_debt, frame.affordable_emi),
        frame.reduced_income)

(* C6: a scenario is flagged affordable exactly when its debt-to-income    *)
(* ratio is at most MAX_DTI_RATIO, the threshold of the affordable         *)
(* payment; each flag is decided by its own scenario's ratio alone.        *)
C6_AffordableFlags ==
    AssessDone =>
        /\ resp.stress_tests[1].is_affordable
             = FLe(RateScenarioDti, MAX_DTI_RATIO)
        /\ resp.stress_tests[2].is_affordable
             = FLe(IncomeScenarioDti, MAX_DTI_RATIO)

(* The rate scenario sits on the threshold and is affordable while the     *)
(* income scenario is not.                                                 *)
C6_Witness ==
    /\ AssessDone
    /\ RateScenarioDti = MAX_DTI_RATIO
    /\ resp.stress_tests[1].is_affordable
    /\ ~resp.stress_tests[2].is_affordable

(***************************************************************************)
(* Properties of emi and principal_from_emi                                *)
(***************************************************************************)
TripDone == pc = "done" /\ op = "emi_round_trip"

(* The six roundings of emi followed by principal_from_emi, and one for   *)
(* their second-order terms.                                               *)
TripRoundings == 6 + 1

Scaled(x, e) == x.m * Pow10(x.e - e)

(* |x - y| <= k * u * |y| with u the unit roundoff 10^(1-Prec) / 2.        *)
WithinRoundings(x, y, k) ==
    /\ Abs(x.e - y.e) <= 1
    /\ 2 * Pow10(Prec - 1)
         * Abs(Scaled(x, y.e - 1) - Scaled(y, y.e - 1))
       <= k * Abs(Scaled(y, y.e - 1))

(* The denominator of emi, (1 + r)^n - 1, as computed.                     *)
EmiDenominator ==
    FSub(Growth(MonthlyRate(req.annual_rate_pct), req.term_months), F(1, 0))

DashboardCalled == pc = "done" /\ op = "get_dashboard"

DashboardReturned == DashboardCalled /\ resp.status = "ok"

(* The caller's rows and figures, read from the store. *)
OwnExpenses == SelectSeq(db.expenses, LAMBDA e : e.user_id = req.user_id)

OwnDebts == SelectSeq(db.debts, LAMBDA d : d.user_id = req.user_id)

OwnIncome == db.income[req.user_id]

ExpenseSum == sum(OwnExpenses, "amount")

EmiSum == sum(OwnDebts, "current_emi")

PrincipalSum == sum(OwnDebts, "principal")

(* C7: debt_payoff_eta_months is None when the sum of the user's current   *)
(* EMIs is 0, with or without debts, and the call does not fail on a       *)
(* division; when the sum is positive it is the integer part of total      *)
(* principal / total EMI.                                                  *)
C7_DebtEta ==
    DashboardCalled =>
        /\ (resp.status # "ok" =>
                resp.raised = "ValueError" /\ FLt(OwnIncome, Zero))
        /\ (DashboardReturned /\ EmiSum = Zero =>
                resp.debt_payoff_eta_months = None)
        /\ (DashboardReturned /\ FGt(EmiSum, Zero) =>
                /\ resp.debt_payoff_eta_months =
                     Months(int(FDiv(PrincipalSum, EmiSum)))
                /\ resp.debt_payoff_eta_months.months \in Int)

(* Debts with principal left and no EMI between them.                      *)
C7_Witness ==
    /\ DashboardReturned
    /\ Len(OwnDebts) > 0
    /\ FGt(PrincipalSum, Zero)
    /\ EmiSum = Zero
    /\ resp.debt_payoff_eta_months = None

(* C8: surplus = income - expenses - debt service; the reserve is 20% of   *)
(* a positive surplus and 0 otherwise; safe_to_spend = max(0, surplus -    *)
(* reserve), so it is never negative, is 0 when the surplus is not         *)
(* positive, and never exceeds a positive surplus.                         *)
C8_SafeToSpend ==
    DashboardCalled =>
        /\ frame.surplus = FSub(FSub(OwnIncome, ExpenseSum), EmiSum)
        /\ frame.goal_allocation =
             (IF FGt(frame.surplus, Zero)
              THEN FMul(frame.surplus, F(2, -1)) ELSE Zero)
        /\ frame.safe_spend =
             FMax(Zero, FSub(frame.surplus, frame.goal_allocation))
        /\ FGe(frame.safe_spend, Zero)
        /\ (FLe(frame.surplus, Zero) => frame.safe_spend = Zero)
        /\ (FGt(frame.surplus, Zero) => FLe(frame.safe_spend, frame.surplus))
        /\ (DashboardReturned =>
                /\ resp.surplus = round(frame.surplus, 2)
                /\ resp.safe_to_spend = round(frame.safe_spend, 2)
                /\ FGe(resp.safe_to_spend, Zero))

(* A negative surplus on a non-negative income.                            *)
C8_Witness ==
    /\ DashboardReturned
    /\ FLt(frame.surplus, Zero)
    /\ resp.safe_to_spend = Zero
    /\ FLt(resp.surplus, Zero)

(* C9: dti is 0 when the income is <= 0 and debt / income otherwise, with  *)
(* no ceiling, so it may exceed 1; a dashboard for a user with zero        *)
(* income returns dti = 0 and does not raise.                              *)
C9_Dti ==
    /\ (pc = "done" /\ op = "dti" =>
            /\ (FLe(req.monthly_income, Zero) => resp.value = Zero)
            /\ (FGt(req.monthly_income, Zero) =>
                    resp.value = FDiv(req.monthly_debt, req.monthly_income)))
    /\ (DashboardCalled /\ OwnIncome = Zero =>
            resp.status = "ok" /\ resp.dti = Zero)
    /\ (DashboardReturned /\ FGt(OwnIncome, Zero) =>
            resp.dti = round(FDiv(EmiSum, OwnIncome), 4))

(* A dashboard on zero income with EMIs to pay.                            *)
C9_Witness ==
    /\ DashboardReturned
    /\ OwnIncome = Zero
    /\ FGt(EmiSum, Zero)
    /\ resp.dti = Zero

(***************************************************************************)
(* Properties of inflation_projection and inflation_forecast               *)
(***************************************************************************)
ProjectionDone == pc = "done" /\ op = "inflation_projection"

(* C11: inflation_projection raises ValueError, and returns no value,      *)
(* whenever current_cost < 0 or years < 0, whatever the rate; for          *)
(* current_cost >= 0 and years >= 0 it returns a value, which is           *)
(* current_cost when the rate is 0 or years is 0.                          *)
C11_InflationProjection ==
    ProjectionDone =>
        /\ (FLt(req.current_cost, Zero) \/ req.years < 0 =>
                resp.status = "error" /\ resp.raised = "ValueError")
        /\ (FGe(req.current_cost, Zero) /\ req.years >= 0 =>
                /\ resp.status = "ok"
                /\ (req.annual_cpi_pct = Zero \/ req.years = 0 =>
                        resp.value = req.current_cost))

(* A valid cost and number of years, and no value returned.                *)
C11_Overflow ==
    /\ ProjectionDone
    /\ FGe(req.current_cost, Zero) /\ req.years >= 0
    /\ resp.status = "error" /\ resp.raised = "OverflowError"

ForecastReturned ==
    pc = "done" /\ op = "inflation_forecast" /\ resp.status = "ok"

(* C12: the list returned for a request with years = N has exactly N       *)
(* entries, with years 1, 2, ..., N in this order, and for                 *)
(* annual_cpi_rate >= 0 and current_price >= 0 the prices do not decrease  *)
(* along the list, before and after rounding to 2 decimals.                *)
C12_Projections ==
    ForecastReturned =>
        /\ Len(resp.projections) = req.years
        /\ \A i \in 1..req.years : resp.projections[i].year = i
        /\ (FGe(req.annual_cpi_rate, Zero) /\ FGe(req.current_price, Zero) =>
                \A i \in 1..(req.years - 1) :
                    /\ FLe(frame.future_costs[i], frame.future_costs[i + 1])
                    /\ FLe(resp.projections[i].estimated_price,
                           resp.projections[i + 1].estimated_price))

(* The longest list, of prices that rise.                                  *)
C12_Witness ==
    /\ ForecastReturned
    /\ req.years = MaxYears
    /\ FGt(req.annual_cpi_rate, Zero) /\ FGt(req.current_price, Zero)
    /\ FLt(resp.projections[1].estimated_price,
           resp.projections[MaxYears].estimated_price)

(***************************************************************************)
(* Properties of fun_budget                                                *)
(***************************************************************************)
(* C13: fun_budget raises ValueError whenever monthly_income < 0 or        *)
(* fun_ratio lies outside [0, 1], and returns monthly_income * fun_ratio   *)
(* otherwise; get_dashboard lets the error through, so a dashboard call    *)
(* for a user with negative monthly_net_income ends in it and returns no   *)
(* summary.                                                                *)
C13_FunBudget ==
    /\ (pc = "done" /\ op = "fun_budget" =>
            IF FLt(req.monthly_income, Zero) \/ FLt(req.fun_ratio, Zero)
               \/ FGt(req.fun_ratio, F(1, 0))
            THEN resp = [status |-> "error", raised |-> "ValueError"]
            ELSE resp = [status |-> "ok",
                         value |-> FMul(req.monthly_income, req.fun_ratio)])
    /\ (DashboardCalled /\ FLt(OwnIncome, Zero) =>
            resp = [status |-> "error", raised |-> "ValueError"])
    /\ (DashboardCalled /\ FGe(OwnIncome, Zero) =>
            /\ resp.status = "ok"
            /\ resp.fun_budget =
                 round(FMul(OwnIncome, DEFAULT_FUN_RATIO), 2))

(* A dashboard call for a user with negative income and rows of their own. *)
C13_Witness ==
    /\ DashboardCalled
    /\ FLt(OwnIncome, Zero)
    /\ Len(OwnDebts) > 0
    /\ resp = [status |-> "error", raised |-> "ValueError"]

(***************************************************************************)
(* get_dashboard and the store                                             *)
(***************************************************************************)
OwnGoals == SelectSeq(db.goals, LAMBDA g : g.user_id = req.user_id)

(* What the caller's rows and income, as they are stored now, amount to.   *)
CurrentSummary ==
    DashboardOutcome(
        DashboardLocals(
            DashboardTotals(OwnExpenses, OwnDebts, OwnGoals, OwnIncome)),
        fun_budget(OwnIncome, DEFAULT_FUN_RATIO)).resp

ReflectsStore == DashboardCalled => resp = CurrentSummary

DashboardStep == pc = "idle" /\ op' = "get_dashboard"

(* C14: get_dashboard only reads: a call leaves the expenses, debts, goals *)
(* and user records as they were, and what it returns is determined by the *)
(* caller's records at the moment of the call, whatever calls and record   *)
(* changes came before; so two calls with no change between them return    *)
(* the same.                                                               *)
C14_Stateless ==
    /\ []ReflectsStore
    /\ [][DashboardStep => db' = db]_vars

(* A call answered from a store that holds rows of both users.             *)
C14_Witness ==
    /\ DashboardReturned
    /\ Len(db.debts) = MaxDebts
    /\ Len(OwnDebts) = 1
    /\ FGt(EmiSum, Zero)
    /\ resp = CurrentSummary

(***************************************************************************)
(* The loop of _simulate_payoff                                            *)
(***************************************************************************)
(* At the head of the loop: the balance lies in 0..principal and months    *)
(* counts the passes completed.                                            *)
AtLoopHead ==
    pc = "test" /\ NonNegativeRate =>
        /\ FGe(sim.balance, Zero) /\ FLe(sim.balance, sim.principal)
        /\ sim.months = sim.iters

(* The pair the simulation hands back in the next state. *)
ReturnsZeroPair ==
    IF op = "loan_payoff_plan"
    THEN frame'.accel_months = 0 /\ frame'.accel_interest = Zero
    ELSE resp'.months = 0 /\ resp'.total_interest = Zero

(* A pass whose payment does not exceed the interest leaves the locals as  *)
(* they were; it is the first pass, and (0, 0.0) is returned.              *)
BreakStep ==
    pc = "body" /\ pc' = "done" /\ NonNegativeRate =>
        /\ sim'.balance = sim.balance
        /\ sim'.months = sim.months
        /\ sim'.total_interest = sim.total_interest
        /\ sim.iters = 0
        /\ ReturnsZeroPair

CompletedPass == pc = "body" /\ pc' = "test" /\ NonNegativeRate

(* C15 as stated: for principal > 0, payment > 0 and rate >= 0, at every   *)
(* loop head 0 <= balance <= principal and months is the number of passes  *)
(* completed; a pass whose payment does not exceed the interest ends the   *)
(* loop with balance, months and total_interest unchanged; every completed *)
(* pass strictly decreases the balance, so that stop happens on the first  *)
(* pass only and the result is then (0, 0.0).                              *)
C15_StrictDecrease ==
    /\ []AtLoopHead
    /\ [][BreakStep]_vars
    /\ [][CompletedPass => FLt(sim'.balance, sim.balance)]_vars

(* C15, amended: the same, except that a completed pass never increases    *)
(* the balance; it leaves the balance as it was when the principal paid is *)
(* lost in the rounding of the subtraction.                                *)
C15_LoopInvariant ==
    /\ []AtLoopHead
    /\ [][BreakStep]_vars
    /\ [][CompletedPass => FLe(sim'.balance, sim.balance)]_vars

(* Passes were completed at a positive rate and the balance came down to   *)
(* below the principal without reaching 0.                                 *)
C15_Witness ==
    /\ pc = "test" /\ NonNegativeRate
    /\ FGt(sim.monthly_rate, Zero)
    /\ sim.months = 2 /\ sim.iters = 2
    /\ FGt(sim.balance, Zero) /\ FLt(sim.balance, sim.principal)

(***************************************************************************)
(* Savings reported by loan_payoff_plan                                    *)
(***************************************************************************)
(* The accelerated simulation ran its loop until the balance was 0.        *)
PaidOff == Simulating /\ sim.exit = "cond" /\ sim.balance = Zero

(* C16: loan_payoff_plan reports months_saved > 0 only when the            *)
(* accelerated simulation brought the balance to 0 in fewer than           *)
(* term_months months; a simulation stopped by the max_months ceiling or   *)
(* by a payment that does not cover the interest is never counted as an    *)
(* earlier payoff, whatever term_months is, terms above 1200 included.     *)
C16_SavingsOnlyOnPayoff ==
    PlanDone /\ resp.months_saved > 0 =>
        PaidOff /\ sim.months < req.term_months

(* A term above the ceiling: the simulation stopped at 1200 months with    *)
(* the balance open and the plan reports the rest of the term as saved.    *)
C16_CeilingCounted ==
    /\ PlanDone
    /\ req.term_months > DefaultMaxMonths
    /\ Simulating /\ sim.months = DefaultMaxMonths
    /\ FGt(sim.balance, Zero)
    /\ resp.months_saved = req.term_months - DefaultMaxMonths

(***************************************************************************)
(* The income scenario of loan_pre_assessment                              *)
(***************************************************************************)
IncomeFlag == resp.stress_tests[2].is_affordable

(* Existing debt plus the affordable payment. *)
DebtService == FAdd(req.existing_monthly_debt, frame.affordable_emi)

NormalIncome ==
    /\ FGt(req.income, Zero)
    /\ frame.max_debt_capacity.m # 0 /\ frame.max_debt_capacity.e >= MinExp10
    /\ frame.reduced_income.m # 0 /\ frame.reduced_income.e >= MinExp10

ImportDone == pc = "done" /\ op = "import_csv"

(* The step of an upload, from the request to the response. *)
ImportStep == pc = "idle" /\ op' = "import_csv"

Upload == req'.contents

BadName == ~IsCsvName(req'.filename)
TooLarge == Upload.size > MAX_CSV_SIZE_MB * 1024 * 1024
Unparseable ==
    \/ ~Upload.decodable
    \/ \E i \in 1..Len(Upload.rows) : Upload.rows[i].fields # "ok"

(* The rows whose parsed amount is greater than 0. *)
PositiveRows ==
    {i \in 1..Len(Upload.rows) :
        /\ Upload.rows[i].amount.text = "number"
        /\ FGt(Upload.rows[i].amount.value, Zero)}

(* The name is looked at first, then the size, then the rows; a refusal    *)
(* answers 400 and leaves the store as it was.                             *)
Refusal ==
    /\ (BadName =>
            resp' = BadRequest("Only CSV files are supported") /\ db' = db)
    /\ (~BadName /\ TooLarge =>
            resp' = BadRequest("File size exceeds 5MB limit") /\ db' = db)
    /\ (~BadName /\ ~TooLarge /\ Unparseable =>
            resp' = BadRequest("Failed to parse CSV") /\ db' = db)

Accepted == ~BadName /\ ~TooLarge /\ ~Unparseable

(* An accepted upload adds one import record, one audit entry and the      *)
(* counted expenses, and touches nothing else.                             *)
Acceptance(expenses_added) ==
    Accepted =>
        /\ resp'.status = 201
        /\ resp'.rows_processed = Len(Upload.rows)
        /\ resp'.expenses_added = expenses_added
        /\ expenses_added <= resp'.rows_processed
        /\ Len(db'.expenses) = Len(db.expenses) + expenses_added
        /\ SubSeq(db'.expenses, 1, Len(db.expenses)) = db.expenses
        /\ Len(db'.imports) = Len(db.imports) + 1
        /\ Len(db'.audit_log) = Len(db.audit_log) + 1
        /\ db'.income = db.income /\ db'.debts = db.debts
        /\ db'.goals = db.goals

(* C18: import_csv checks the file name, then the size, then parses,       *)
(* before it touches the store: an upload refused for its name, its size   *)
(* or a parse failure ends in a 400 error and adds no Expense, no          *)
(* TransactionImport and no audit entry; an accepted upload adds one       *)
(* Expense per parsed row with amount > 0 and none for the other rows, so  *)
(* expenses_added <= rows_processed.                                       *)
C18_ImportCsv ==
    [][ImportStep =>
          Refusal /\ Acceptance(Cardinality(PositiveRows))]_vars

(* The upload of one row whose amount cell reads "nan" was accepted and    *)
(* the row was stored as an Expense with amount NaN.                       *)
C18_NaNExpense ==
    /\ ImportDone
    /\ req.contents.rows = <<NotANumber>>
    /\ resp.status = 201
    /\ resp.rows_processed = 1
    /\ resp.expenses_added = 1
    /\ Len(db.expenses) >= 1
    /\ db.expenses[Len(db.expenses)].amount = NaN
====
